---- MODULE Spec2Model ----
(***************************************************************************)
(* A model of src/src/utils/index.js, the snapping engine of               *)
(* mapbox-gl-draw-snap-mode: createSnapList, getNearbyvertices,            *)
(* calcLayerDistances, calcClosestLayer, checkPrioritiySnapping and snap.  *)
(*                                                                         *)
(* Numbers.  Longitudes and latitudes are integers counting thousandths of *)
(* a degree, so the guide tolerance 0.009 is 9 and the guide length 10 is  *)
(* 10000.  Distances are integers counting thousandths of a kilometre      *)
(* (metres), so the default priority distance 1.25 is 1250 and the code's  *)
(* "distance * 1000" (kilometres to metres) keeps the integer.  A JS value *)
(* that may be undefined is a sequence: << >> is undefined, <<n>> is the   *)
(* number n.                                                               *)
(***************************************************************************)
EXTENDS Integers, Sequences, FiniteSets, TLC

VARIABLES store, state, last, probe

vars == <<store, state, last, probe>>

(***************************************************************************)
(* JS values                                                               *)
(***************************************************************************)
Undefined == << >>

Num(n) == <<n>>

\* JS truthiness of a maybe-number: undefined and 0 are falsy.
Truthy(v) == v # Undefined /\ v[1] # 0

\* a < b on maybe-numbers: a comparison with undefined is false.
JsLess(a, b) == a # Undefined /\ b # Undefined /\ a[1] < b[1]

Abs(x) == IF x < 0 THEN -x ELSE x

Min(a, b) == IF a < b THEN a ELSE b

Max(a, b) == IF a > b THEN a ELSE b

\* Array.prototype.slice(start, end) on a sequence, indices counted from 0.
Slice(arr, start, end) ==
  LET n  == Len(arr)
      s  == IF start < 0 THEN Max(n + start, 0) ELSE Min(start, n)
      e  == IF end < 0 THEN Max(n + end, 0) ELSE Min(end, n)
  IN  IF e <= s THEN << >> ELSE [k \in 1..(e - s) |-> arr[s + k]]

(***************************************************************************)
(* GeoJSON coordinates.  A coordinates value is a tree: kind "nums" is an  *)
(* array of numbers (a position, or the empty array), kind "arrs" is a     *)
(* non-empty array of arrays, kind "none" is no array at all.              *)
(***************************************************************************)
Pos(p) == [kind |-> "nums", items |-> p]

Arr(s) == IF s = << >> THEN Pos(<< >>) ELSE [kind |-> "arrs", items |-> s]

Line(ps) == Arr([i \in 1..Len(ps) |-> Pos(ps[i])])

Rings(rs) == Arr([i \in 1..Len(rs) |-> Line(rs[i])])

Polys(pp) == Arr([i \in 1..Len(pp) |-> Rings(pp[i])])

IDS == [VERTICAL_GUIDE |-> "VERTICAL_GUIDE", HORIZONTAL_GUIDE |-> "HORIZONTAL_GUIDE"]

\* The drawn features the feature store may hold, by id.
FeatureIds == {"pt", "mpt", "ln", "pg", "mpg"}

GuideIds == {IDS.VERTICAL_GUIDE, IDS.HORIZONTAL_GUIDE}

\* A feature that is being drawn and is not in the store yet.
NewId == "new"

Feat(id, type, coordinates) ==
  [id |-> id, geometry |-> [type |-> type, coordinates |-> coordinates]]

getGuideFeature(id, coords) == Feat(id, "LineString", Line(coords))

\* The drawn feature an id refers to.
Feature(id) ==
  CASE id = "pt"  -> Feat(id, "Point", Pos(<<0, 40>>))
    [] id = "mpt" -> Feat(id, "MultiPoint", Line(<<<<24, 4>>, <<28, 4, 100>>>>))
    [] id = "ln"  -> Feat(id, "LineString", Line(<<<<20, 20>>, <<60, 20>>, <<60, 50>>>>))
    [] id = "pg"  -> Feat(id, "Polygon", Rings(<<
                        <<<<0, 0>>, <<16, 0>>, <<16, 16>>, <<0, 0>>>>,
                        <<<<8, 2>>, <<12, 2>>, <<12, 6>>, <<8, 2>>>> >>))
    [] id = "mpg" -> Feat(id, "MultiPolygon", Polys(<<
                        << <<<<40, 40>>, <<50, 40>>, <<50, 48>>, <<40, 40>>>> >>,
                        << <<<<30, 52>>, <<36, 52>>, <<36, 58>>, <<30, 52>>>> >> >>))
    [] OTHER -> Feat(id, "LineString", Pos(<< >>))

\* draw.getAll().features: the features of the store, in store order.  The
\* two guides are features of the store too; their coordinates are the
\* session's guide lines.
getAll(ids, st) ==
  [i \in 1..Len(ids) |->
     IF ids[i] = IDS.VERTICAL_GUIDE THEN getGuideFeature(ids[i], st.verticalGuide)
     ELSE IF ids[i] = IDS.HORIZONTAL_GUIDE THEN getGuideFeature(ids[i], st.horizontalGuide)
     ELSE Feature(ids[i])]

(***************************************************************************)
(* createSnapList                                                          *)
(***************************************************************************)
RECURSIVE addVerticesToList(_)
RECURSIVE addEach(_, _)

\* forEach(coord => addVerticesToList(coord)) from element i on.
addEach(items, i) ==
  IF i > Len(items) THEN << >>
  ELSE addVerticesToList(items[i]) \o addEach(items, i + 1)

\* The positions pushed to vertices for one coordinates value, in order.
addVerticesToList(coordinates) ==
  IF coordinates.kind = "none" THEN << >>
  ELSE IF coordinates.kind = "arrs" THEN addEach(coordinates.items, 1)
  ELSE IF Len(coordinates.items) = 2 THEN <<coordinates.items>>
  ELSE << >>

RECURSIVE createSnapListFrom_KeepsCurrent(_, _, _)

\* (A variant of createSnapListFrom that does not skip the current feature.)
createSnapListFrom_KeepsCurrent(features, currentFeature, i) ==
  IF i > Len(features) THEN [snapList |-> << >>, vertices |-> << >>]
  ELSE
    LET feature == features[i]
        rest    == createSnapListFrom_KeepsCurrent(features, currentFeature, i + 1)
    IN  IF \/ feature.id = IDS.HORIZONTAL_GUIDE
           \/ feature.id = IDS.VERTICAL_GUIDE
        THEN rest
        ELSE [snapList |-> <<feature.id>> \o rest.snapList,
              vertices |-> addVerticesToList(feature.geometry.coordinates) \o rest.vertices]

RECURSIVE createSnapListFrom(_, _, _)

\* features.forEach from element i on: the ids pushed to snapList and the
\* positions pushed to vertices.
createSnapListFrom(features, currentFeature, i) ==
  IF i > Len(features) THEN [snapList |-> << >>, vertices |-> << >>]
  ELSE
    LET feature == features[i]
        rest    == createSnapListFrom(features, currentFeature, i + 1)
    IN  IF \/ feature.id = IDS.HORIZONTAL_GUIDE
           \/ feature.id = IDS.VERTICAL_GUIDE
           \/ feature.id = currentFeature
        THEN rest
        ELSE [snapList |-> <<feature.id>> \o rest.snapList,
              vertices |-> addVerticesToList(feature.geometry.coordinates) \o rest.vertices]

createSnapList(features, currentFeature) ==
  createSnapListFrom(features, currentFeature, 1)

(***************************************************************************)
(* The turf functions the kernel calls.  Positions are <<lng, lat>>.       *)
(***************************************************************************)
RECURSIVE IsqrtIter(_, _, _)

IsqrtIter(n, lo, hi) ==
  IF lo >= hi THEN lo
  ELSE LET mid == (lo + hi + 1) \div 2
       IN  IF mid * mid <= n THEN IsqrtIter(n, mid, hi) ELSE IsqrtIter(n, lo, mid - 1)

\* The integer square root.
Isqrt(n) == IsqrtIter(n, 0, 20000)

\* The largest difference of two longitudes or latitudes of the model.
GridSpan == 64

\* The planar distance in metres of two positions dx and dy thousandths of
\* a degree apart, at 111 m per thousandth, rounded down.
Metres == [dx \in 0..GridSpan, dy \in 0..GridSpan |->
             Isqrt((111 * dx) * (111 * dx) + (111 * dy) * (111 * dy))]

\* @turf/distance: the great-circle distance.  Over the model's few
\* hundredths of a degree around (0, 0) it is the planar distance.
distance(a, b) == Metres[Abs(a[1] - b[1]), Abs(a[2] - b[2])]

\* n / d rounded to the nearest integer, d > 0.
RoundDiv(n, d) == (2 * n + d) \div (2 * d)

\* @turf/midpoint, rounded to the grid.
midpoint(a, b) == <<RoundDiv(a[1] + b[1], 2), RoundDiv(a[2] + b[2], 2)>>

\* The first two numbers of a position.
XY(pos) == <<pos.items[1], pos.items[2]>>

\* getCoords of a line: its positions.
LineCoords(coordinates) ==
  IF coordinates.kind = "arrs"
  THEN [i \in 1..Len(coordinates.items) |-> XY(coordinates.items[i])]
  ELSE << >>

\* The foot of the perpendicular from P on the segment from A to B, when it
\* falls on the segment (turf intersects the perpendicular with the segment).
Intersect(A, B, P) ==
  LET dx  == B[1] - A[1]
      dy  == B[2] - A[2]
      den == dx * dx + dy * dy
      num == (P[1] - A[1]) * dx + (P[2] - A[2]) * dy
  IN  IF den = 0 \/ num < 0 \/ num > den THEN << >>
      ELSE << <<A[1] + RoundDiv(num * dx, den), A[2] + RoundDiv(num * dy, den)>> >>

\* One step of nearestPointOnLine: segment i (from 0) against the closest
\* point so far; start, stop and intersection each win only when strictly
\* nearer.
NearestStep(line, P, i, closestPt) ==
  LET start == [coordinates |-> line[i + 1], dist |-> distance(P, line[i + 1]), index |-> i]
      stop  == [coordinates |-> line[i + 2], dist |-> distance(P, line[i + 2]), index |-> i + 1]
      hit   == Intersect(line[i + 1], line[i + 2], P)
      c1    == IF closestPt = << >> \/ start.dist < closestPt[1].dist
               THEN <<start>> ELSE closestPt
      c2    == IF stop.dist < c1[1].dist THEN <<stop>> ELSE c1
  IN  IF hit # << >> /\ distance(P, hit[1]) < c2[1].dist
      THEN << [coordinates |-> hit[1], dist |-> distance(P, hit[1]), index |-> i] >>
      ELSE c2

RECURSIVE NearestFrom(_, _, _, _)

\* (The next closest point is bound in a set so that it is computed once.)
NearestFrom(line, P, i, closestPt) ==
  IF i + 2 > Len(line) THEN closestPt
  ELSE CHOOSE r \in {NearestFrom(line, P, i + 1, c) :
                       c \in {NearestStep(line, P, i, closestPt)}} : TRUE

\* @turf/nearest-point-on-line for a line of two or more positions: the
\* nearest point, its distance and the index of its segment.
nearestPointOnLine(line, P) == NearestFrom(line, P, 0, << >>)[1]

RECURSIVE NearestInSetFrom(_, _, _, _)

NearestInSetFrom(points, P, i, best) ==
  IF i > Len(points) THEN best
  ELSE CHOOSE r \in {NearestInSetFrom(points, P, i + 1, b) : b \in {
         IF best = << >> \/ distance(P, points[i]) < best[1].distanceToPoint
         THEN << [coordinates |-> points[i], distanceToPoint |-> distance(P, points[i])] >>
         ELSE best}} : TRUE

\* @turf/nearest-point: the first of the nearest points of a set.
nearestPointInPointSet(P, points) == NearestInSetFrom(points, P, 1, << >>)[1]

RECURSIVE Flatten(_, _)

\* flatMap: the concatenation of the sequences seqs[i..].
Flatten(seqs, i) ==
  IF i > Len(seqs) THEN << >> ELSE seqs[i] \o Flatten(seqs, i + 1)

\* The rings of a polygon's coordinates, each as a line.
RingLines(coordinates) ==
  IF coordinates.kind = "arrs"
  THEN [i \in 1..Len(coordinates.items) |-> LineCoords(coordinates.items[i])]
  ELSE << >>

\* polygonToLine and the lineStrings built from it: a Polygon gives its
\* rings, a MultiPolygon the rings of all its polygons, in order.
polygonToLine(geometry) ==
  IF geometry.type = "Polygon" THEN RingLines(geometry.coordinates)
  ELSE Flatten([i \in 1..Len(geometry.coordinates.items) |->
                  RingLines(geometry.coordinates.items[i])], 1)

RECURSIVE FirstNearest(_, _, _)

\* After the stable sort by dist, element 0: the first line of least dist.
FirstNearest(found, i, best) ==
  IF i > Len(found) THEN found[best]
  ELSE FirstNearest(found, i + 1,
         IF found[i].point.dist < found[best].point.dist THEN i ELSE best)

getFeatureWithNearestPoint(lineStrings, P) ==
  CHOOSE r \in {FirstNearest(nearestPointsOfEachFeature, 2, 1) :
                  nearestPointsOfEachFeature \in {
                    [i \in 1..Len(lineStrings) |->
                       [feature |-> lineStrings[i],
                        point |-> nearestPointOnLine(lineStrings[i], P)]]}} : TRUE

(***************************************************************************)
(* calcLayerDistances and calcClosestLayer                                 *)
(***************************************************************************)
\* (A variant of SegmentAt without the correction of the index.)
SegmentAt_NoClamp(coordinates, index) == Slice(coordinates, index, index + 2)

\* Lines 171-186: the segment of the nearest point, from the reported index.
SegmentAt(coordinates, index) ==
  LET segmentIndex == IF index + 1 >= Len(coordinates)
                      THEN Len(coordinates) - 2 ELSE index
  IN  Slice(coordinates, segmentIndex, segmentIndex + 2)

\* The result for a point-like layer: no segment, no isMarker.
PointResult(c, d) ==
  [latlng |-> [lng |-> c[1], lat |-> c[2]], distance |-> d,
   hasSegment |-> FALSE, segment |-> << >>, isMarker |-> FALSE]

\* The result for a line and the nearest point found on it.
LineResult(coordinates, nearestPoint) ==
  [latlng |-> [lng |-> nearestPoint.coordinates[1], lat |-> nearestPoint.coordinates[2]],
   distance |-> Num(nearestPoint.dist),
   hasSegment |-> TRUE, segment |-> SegmentAt(coordinates, nearestPoint.index),
   isMarker |-> FALSE]

calcLayerDistances(lngLat, layer) ==
  LET P    == <<lngLat.lng, lngLat.lat>>
      type == layer.geometry.type
  IN  IF type = "Point"
      THEN PointResult(XY(layer.geometry.coordinates),
                       Num(distance(XY(layer.geometry.coordinates), P)))
      ELSE IF type = "MultiPoint"
      THEN LET np == nearestPointInPointSet(P, LineCoords(layer.geometry.coordinates))
           IN  PointResult(np.coordinates, Num(np.distanceToPoint))
      ELSE IF type = "Polygon" \/ type = "MultiPolygon"
      THEN LET closestFeature == getFeatureWithNearestPoint(polygonToLine(layer.geometry), P)
           IN  LineResult(closestFeature.feature, closestFeature.point)
      ELSE LET coordinates == LineCoords(layer.geometry.coordinates)
           IN  LineResult(coordinates, nearestPointOnLine(coordinates, P))

\* The object {} (no keys).
EmptyObject ==
  [keys |-> 0, latlng |-> [lng |-> 0, lat |-> 0], distance |-> Undefined,
   hasSegment |-> FALSE, segment |-> << >>, isMarker |-> FALSE, layer |-> ""]

\* (A variant of ClosestStep that replaces only the empty object or a
\* farther result, without the test for an undefined distance.)
ClosestStep_NoUndefinedTest(closestLayer, results, layer) ==
  IF closestLayer.keys = 0 \/ JsLess(results.distance, closestLayer.distance)
  THEN [keys |-> (IF results.hasSegment THEN 5 ELSE 3), latlng |-> results.latlng,
        distance |-> results.distance,
        hasSegment |-> results.hasSegment, segment |-> results.segment,
        isMarker |-> results.isMarker, layer |-> layer]
  ELSE closestLayer

\* The loop body of calcClosestLayer for one layer and its results.
ClosestStep(closestLayer, results, layer) ==
  IF closestLayer.distance = Undefined \/ JsLess(results.distance, closestLayer.distance)
  THEN [keys |-> (IF results.hasSegment THEN 5 ELSE 3), latlng |-> results.latlng, distance |-> results.distance,
        hasSegment |-> results.hasSegment, segment |-> results.segment,
        isMarker |-> results.isMarker, layer |-> layer]
  ELSE closestLayer

RECURSIVE ClosestFrom(_, _, _, _)

\* layers.forEach from element i on; results[i] is calcLayerDistances of layers[i].
ClosestFrom(results, layers, i, closestLayer) ==
  IF i > Len(layers) THEN closestLayer
  ELSE CHOOSE r \in {ClosestFrom(results, layers, i + 1, c) :
                       c \in {ClosestStep(closestLayer, results[i], layers[i])}} : TRUE

calcClosestLayer(lngLat, layers) ==
  CHOOSE r \in {ClosestFrom(results, layers, 1, EmptyObject) :
                  results \in {[i \in 1..Len(layers) |->
                                  calcLayerDistances(lngLat, Feature(layers[i]))]}} : TRUE

(***************************************************************************)
(* The snap resolution policy                                              *)
(***************************************************************************)
earthCircumference == 40075017

RECURSIVE Pow2(_)

Pow2(n) == IF n <= 0 THEN 1 ELSE 2 * Pow2(n - 1)

\* Metres per pixel, rounded down to the metre.  cos(latitude) is 1 to six
\* decimals over the model's latitudes and does not move the rounded value.
metersPerPixel(latitude, zoomLevel) == earthCircumference \div Pow2(zoomLevel + 8)

snapToLineOrPolygon(closestLayer, snapOptions, snapVertexPriorityDistance) ==
  LET A == closestLayer.segment[1]
      B == closestLayer.segment[2]
      C == <<closestLayer.latlng.lng, closestLayer.latlng.lat>>
      distanceAC == distance(A, C)
      distanceBC == distance(B, C)
      M == midpoint(A, B)
      distanceMC == distance(M, C)
      useM == /\ snapOptions # Undefined
              /\ snapOptions[1].snapToMidPoints
              /\ distanceMC < distanceAC
              /\ distanceMC < distanceBC
      closestVertexLatLng == IF useM THEN M ELSE IF distanceAC < distanceBC THEN A ELSE B
      shortestDistance == IF useM THEN distanceMC
                          ELSE IF distanceAC < distanceBC THEN distanceAC ELSE distanceBC
      priorityDistance == snapVertexPriorityDistance
      snapLatlng == IF JsLess(Num(shortestDistance), priorityDistance)
                    THEN closestVertexLatLng ELSE C
  IN  [lng |-> snapLatlng[1], lat |-> snapLatlng[2]]

snapToPoint(closestLayer) == closestLayer.latlng

DefaultPriorityDistance == 1250

\* (A variant of checkPrioritiySnapping without the default value.)
checkPrioritiySnapping_NoDefault(closestLayer, snapOptions, snapVertexPriorityDistance) ==
  IF ~closestLayer.hasSegment THEN snapToPoint(closestLayer)
  ELSE snapToLineOrPolygon(closestLayer, snapOptions, snapVertexPriorityDistance)

checkPrioritiySnapping(closestLayer, snapOptions, snapVertexPriorityDistance) ==
  LET priority == IF snapVertexPriorityDistance = Undefined
                  THEN Num(DefaultPriorityDistance) ELSE snapVertexPriorityDistance
      snappingToPoint == ~closestLayer.hasSegment
  IN  IF snappingToPoint THEN snapToPoint(closestLayer)
      ELSE snapToLineOrPolygon(closestLayer, snapOptions, priority)

(***************************************************************************)
(* The guide-line resolver                                                 *)
(***************************************************************************)
GuideTolerance == 9

GuideLength == 10000

RECURSIVE Find_Last(_, _, _, _)

\* (A variant of Find that returns the last match instead of the first.)
Find_Last(xs, q, i, tol) ==
  IF i > Len(xs) THEN Undefined
  ELSE IF Find_Last(xs, q, i + 1, tol) # Undefined THEN Find_Last(xs, q, i + 1, tol)
  ELSE IF Abs(xs[i] - q) < tol THEN Num(xs[i])
  ELSE Undefined

RECURSIVE Find(_, _, _, _)

\* Array.prototype.find over xs[i..]: the first x with |x - q| < GuideTolerance.
Find(xs, q, i, tol) ==
  IF i > Len(xs) THEN Undefined
  ELSE IF Abs(xs[i] - q) < tol THEN Num(xs[i])
  ELSE Find(xs, q, i + 1, tol)

getNearbyvertices(vertices, coords) ==
  LET verticals   == [i \in 1..Len(vertices) |-> vertices[i][1]]
      horizontals == [i \in 1..Len(vertices) |-> vertices[i][2]]
  IN  [verticalPx   |-> Find(verticals, coords.lng, 1, GuideTolerance),
       horizontalPx |-> Find(horizontals, coords.lat, 1, GuideTolerance)]

(***************************************************************************)
(* snap                                                                    *)
(***************************************************************************)
DefaultSnapPx == 50

\* Lines 349-379: closestLayer, snapLatLng and minDistance when feature
\* snapping is on; closestLayer is undefined (<< >>) when it is off.
\* (closestLayer is bound in a set so that it is computed once.)
FeatureSnap(st, lng, lat) ==
  IF st.options.snap
  THEN LET snapOptions == st.options.snapOptions
           snapVertexPriorityDistance ==
             IF snapOptions # Undefined THEN snapOptions[1].snapVertexPriorityDistance
             ELSE Undefined
           snapPx == IF snapOptions # Undefined /\ Truthy(snapOptions[1].snapPx)
                     THEN snapOptions[1].snapPx[1] ELSE DefaultSnapPx
       IN  CHOOSE f \in {
             [closestLayer |-> <<closestLayer>>,
              snapLatLng   |-> IF closestLayer.keys = 0 THEN closestLayer.latlng
                               ELSE IF ~closestLayer.isMarker
                               THEN checkPrioritiySnapping(closestLayer, snapOptions,
                                                           snapVertexPriorityDistance)
                               ELSE closestLayer.latlng,
              minDistance  |-> Num(snapPx * metersPerPixel(lat, st.map.zoom))] :
             closestLayer \in {calcClosestLayer([lng |-> lng, lat |-> lat], st.snapList)}
           } : TRUE
  ELSE [closestLayer |-> Undefined, snapLatLng |-> [lng |-> lng, lat |-> lat],
        minDistance |-> Undefined]

\* Lines 388-417: the state with the guide lines and the two flags updated
\* for the values the lookup returned.
UpdateGuides(st, e, verticalPx, horizontalPx) ==
  [st EXCEPT
     !.verticalGuide =
        IF Truthy(verticalPx)
        THEN << <<verticalPx[1], e.lngLat.lat + GuideLength>>,
                <<verticalPx[1], e.lngLat.lat - GuideLength>> >>
        ELSE @,
     !.horizontalGuide =
        IF Truthy(horizontalPx)
        THEN << <<e.lngLat.lng + GuideLength, horizontalPx[1]>>,
                <<e.lngLat.lng - GuideLength, horizontalPx[1]>> >>
        ELSE @,
     !.showVerticalSnapLine = Truthy(verticalPx),
     !.showHorizontalSnapLine = Truthy(horizontalPx)]

\* (A variant of GuideSnap whose flags, once set, stay set.)
GuideSnap_Sticky(st, e) ==
  IF st.options.guides
  THEN LET nearestGuidline == getNearbyvertices(st.vertices, e.lngLat)
           updated == UpdateGuides(st, e, nearestGuidline.verticalPx,
                                   nearestGuidline.horizontalPx)
       IN  [verticalPx |-> nearestGuidline.verticalPx,
            horizontalPx |-> nearestGuidline.horizontalPx,
            state |-> [updated EXCEPT
              !.showVerticalSnapLine = st.showVerticalSnapLine \/ @,
              !.showHorizontalSnapLine = st.showHorizontalSnapLine \/ @]]
  ELSE [verticalPx |-> Undefined, horizontalPx |-> Undefined, state |-> st]

\* (A variant of GuideSnap that hands a guide value to the final decision
\* only when the guide line was already shown before the call.)
GuideSnap_Stale(st, e) ==
  IF st.options.guides
  THEN LET nearestGuidline == getNearbyvertices(st.vertices, e.lngLat)
       IN  [verticalPx |-> IF st.showVerticalSnapLine
                           THEN nearestGuidline.verticalPx ELSE Undefined,
            horizontalPx |-> IF st.showHorizontalSnapLine
                             THEN nearestGuidline.horizontalPx ELSE Undefined,
            state |-> UpdateGuides(st, e, nearestGuidline.verticalPx,
                                   nearestGuidline.horizontalPx)]
  ELSE [verticalPx |-> Undefined, horizontalPx |-> Undefined, state |-> st]

\* Lines 381-418: the guide lookup and, when guides are on, the state with
\* the guide lines and the two flags updated.
\* (nearestGuidline is bound in a set so that it is computed once.)
GuideSnap(st, e) ==
  IF st.options.guides
  THEN CHOOSE g \in {
         [verticalPx |-> nearestGuidline.verticalPx,
          horizontalPx |-> nearestGuidline.horizontalPx,
          state |-> UpdateGuides(st, e, nearestGuidline.verticalPx,
                                 nearestGuidline.horizontalPx)] :
         nearestGuidline \in {getNearbyvertices(st.vertices, e.lngLat)} } : TRUE
  ELSE [verticalPx |-> Undefined, horizontalPx |-> Undefined, state |-> st]

\* (A variant of Decide that tests the guides before the feature.)
Decide_GuideFirst(f, g, lng, lat) ==
  IF Truthy(g.verticalPx) \/ Truthy(g.horizontalPx)
  THEN [lng |-> IF Truthy(g.verticalPx) THEN g.verticalPx[1] ELSE lng,
        lat |-> IF Truthy(g.horizontalPx) THEN g.horizontalPx[1] ELSE lat]
  ELSE IF f.closestLayer # Undefined /\ JsLess(f.closestLayer[1].distance, f.minDistance)
  THEN f.snapLatLng
  ELSE [lng |-> lng, lat |-> lat]

\* Lines 420-432: the returned coordinate.
Decide(f, g, lng, lat) ==
  IF f.closestLayer # Undefined /\ JsLess(f.closestLayer[1].distance, f.minDistance)
  THEN f.snapLatLng
  ELSE [lng |-> IF Truthy(g.verticalPx) THEN g.verticalPx[1] ELSE lng,
        lat |-> IF Truthy(g.horizontalPx) THEN g.horizontalPx[1] ELSE lat]

\* (A variant of Bypass that returns without clearing the flags.)
Bypass_KeepsFlags(st, raw) == [ret |-> raw, state |-> st]

\* Lines 336-341: alt is held.
Bypass(st, raw) ==
  [ret |-> raw,
   state |-> [st EXCEPT !.showVerticalSnapLine = FALSE,
                        !.showHorizontalSnapLine = FALSE]]

\* snap(state, e): the returned coordinate and the state it leaves.
snap(st, e) ==
  LET lng == e.lngLat.lng
      lat == e.lngLat.lat
      raw == [lng |-> lng, lat |-> lat]
  IN  IF e.originalEvent.altKey
      THEN Bypass(st, raw)
      ELSE IF Len(st.snapList) <= 0
      THEN [ret |-> raw, state |-> st]
      ELSE CHOOSE r \in {
             IF f.closestLayer # Undefined /\ f.closestLayer[1].keys = 0
             THEN [ret |-> raw, state |-> st]
             ELSE [ret |-> Decide(f, g, lng, lat), state |-> g.state] :
             f \in {FeatureSnap(st, lng, lat)}, g \in {GuideSnap(st, e)} } : TRUE

(***************************************************************************)
(* The session: the feature store, the mode's state object, and the        *)
(* operations on them.  last records the latest operation; probe counts    *)
(* the points pushed since the snap list was built.                        *)
(***************************************************************************)
MaxPushes == 1

\* The sessions modelled: the store (the two guides, then the drawn
\* features) and the feature being drawn or edited.
Sessions ==
  { [store |-> <<IDS.VERTICAL_GUIDE, IDS.HORIZONTAL_GUIDE>>, currentFeature |-> NewId],
    [store |-> <<IDS.VERTICAL_GUIDE, IDS.HORIZONTAL_GUIDE, "pt", "ln">>,
     currentFeature |-> NewId],
    [store |-> <<IDS.VERTICAL_GUIDE, IDS.HORIZONTAL_GUIDE, "mpt", "pg">>,
     currentFeature |-> NewId],
    [store |-> <<IDS.VERTICAL_GUIDE, IDS.HORIZONTAL_GUIDE, "ln", "pt">>,
     currentFeature |-> "ln"] }

CustomSnapOptions ==
  << [snapPx |-> Num(15), snapToMidPoints |-> TRUE,
      snapVertexPriorityDistance |-> Num(0)] >>

OptionSets ==
  { [snap |-> TRUE,  guides |-> TRUE,  snapOptions |-> Undefined],
    [snap |-> TRUE,  guides |-> FALSE, snapOptions |-> Undefined],
    [snap |-> FALSE, guides |-> TRUE,  snapOptions |-> Undefined],
    [snap |-> TRUE,  guides |-> TRUE,  snapOptions |-> CustomSnapOptions] }

Zooms == {10, 14}

\* Pointer positions and the positions a click records.
Pointers == { <<5, 45>>, <<22, 21>>, <<25, 27>>, <<29, 60>> }

Clicks == { <<27, 0>> }

Events ==
  { [lngLat |-> [lng |-> p[1], lat |-> p[2]], originalEvent |-> [altKey |-> a]] :
      p \in Pointers, a \in BOOLEAN }

NoOp == [op |-> "none"]

\* The state object of a mode after setup.
NewState(ids, currentFeature, options, zoom) ==
  LET blank == [currentFeature |-> currentFeature,
                snapList |-> << >>, vertices |-> << >>, options |-> options,
                map |-> [zoom |-> zoom],
                showVerticalSnapLine |-> FALSE, showHorizontalSnapLine |-> FALSE,
                verticalGuide |-> << >>, horizontalGuide |-> << >>]
      made  == createSnapList(getAll(ids, blank), currentFeature)
  IN  [blank EXCEPT !.snapList = made.snapList, !.vertices = made.vertices]

Init ==
  /\ \E s \in Sessions, o \in OptionSets, z \in Zooms :
       /\ store = s.store
       /\ state = NewState(s.store, s.currentFeature, o, z)
  /\ last = NoOp
  /\ probe = 0

\* The moveend callback: the snap list and the vertices are built again.
CreateSnapList ==
  LET made == createSnapList(getAll(store, state), state.currentFeature)
  IN  /\ state' = [state EXCEPT !.snapList = made.snapList, !.vertices = made.vertices]
      /\ last' = [op |-> "createSnapList"]
      /\ probe' = 0
      /\ UNCHANGED store

\* addPointToVertices(map, vertices, coordinates)
AddPointToVertices(coordinates) ==
  /\ probe < MaxPushes
  /\ state' = [state EXCEPT !.vertices = Append(@, coordinates)]
  /\ last' = [op |-> "addPointToVertices"]
  /\ probe' = probe + 1
  /\ UNCHANGED store

\* The host changes draw.options, which the state object refers to.
SetOptions(options) ==
  /\ options # state.options
  /\ state' = [state EXCEPT !.options = options]
  /\ last' = [op |-> "setOptions"]
  /\ UNCHANGED <<store, probe>>

\* The map is zoomed.
ZoomTo(zoom) ==
  /\ zoom # state.map.zoom
  /\ state' = [state EXCEPT !.map = [zoom |-> zoom]]
  /\ last' = [op |-> "zoom"]
  /\ UNCHANGED <<store, probe>>

\* A pointer event reaches snap(state, e).  last keeps the event, the state
\* before the call and the coordinate returned; again tells that the call
\* before was snap with the same event, prevRet what that call returned, and
\* changed that that call changed the state object.
Snap(e) ==
  \E r \in {snap(state, e)}, again \in {last.op = "snap" /\ last.e = e} :
    /\ state' = r.state
    /\ last' = [op |-> "snap", e |-> e, pre |-> state, ret |-> r.ret,
                again |-> again, prevRet |-> IF again THEN last.ret ELSE r.ret,
                changed |-> again /\ last.pre # state]
    /\ UNCHANGED <<store, probe>>

Next ==
  \/ CreateSnapList
  \/ \E p \in Clicks : AddPointToVertices(p)
  \/ \E o \in OptionSets : SetOptions(o)
  \/ \E z \in Zooms : ZoomTo(z)
  \/ \E e \in Events : Snap(e)

Spec == Init /\ [][Next]_vars

(***************************************************************************)
(* Properties of snap, stated on the state right after a call: last.pre is *)
(* the state object before the call, state the one it left.                *)
(***************************************************************************)
Called == last.op = "snap"

\* The call was not bypassed and had candidates: it ran the snapping steps.
Resolved == Called /\ ~last.e.originalEvent.altKey /\ Len(last.pre.snapList) > 0

\* The call ran the guide lookup.
GuidesRan == Resolved /\ last.pre.options.guides

\* The call treated the axis as matched: it showed the guide line.
MatchedV == GuidesRan /\ state.showVerticalSnapLine

MatchedH == GuidesRan /\ state.showHorizontalSnapLine

\* Some recorded longitude (latitude) lies within the tolerance of the query.
NearV == \E i \in 1..Len(last.pre.vertices) :
           Abs(last.pre.vertices[i][1] - last.e.lngLat.lng) < GuideTolerance

NearH == \E i \in 1..Len(last.pre.vertices) :
           Abs(last.pre.vertices[i][2] - last.e.lngLat.lat) < GuideTolerance

\* The first recorded longitude (latitude) within the tolerance of the query.
FirstNearV ==
  LET i == CHOOSE k \in 1..Len(last.pre.vertices) :
             /\ Abs(last.pre.vertices[k][1] - last.e.lngLat.lng) < GuideTolerance
             /\ \A j \in 1..(k - 1) :
                  Abs(last.pre.vertices[j][1] - last.e.lngLat.lng) >= GuideTolerance
  IN  last.pre.vertices[i][1]

FirstNearH ==
  LET i == CHOOSE k \in 1..Len(last.pre.vertices) :
             /\ Abs(last.pre.vertices[k][2] - last.e.lngLat.lat) < GuideTolerance
             /\ \A j \in 1..(k - 1) :
                  Abs(last.pre.vertices[j][2] - last.e.lngLat.lat) >= GuideTolerance
  IN  last.pre.vertices[i][2]

\* C1: with the bypass modifier held, snap returns the event's raw lng/lat
\* and leaves both guide flags false, whatever the state was.
C1_BypassReturnsRaw ==
  (Called /\ last.e.originalEvent.altKey) =>
    /\ last.ret = last.e.lngLat
    /\ ~state.showVerticalSnapLine
    /\ ~state.showHorizontalSnapLine

\* A bypassed call on a session with candidates whose guide flags were both
\* set, at a pointer that would otherwise have snapped to a guide.
C1_Witness ==
  /\ Called /\ last.e.originalEvent.altKey
  /\ Len(last.pre.snapList) > 0
  /\ last.pre.showVerticalSnapLine /\ last.pre.showHorizontalSnapLine
  /\ last.pre.options.guides /\ NearV

\* The closest candidate of the call, its snap coordinate and the tolerance.
CallClosest == calcClosestLayer(last.e.lngLat, last.pre.snapList)

CallSnapPx ==
  IF last.pre.options.snapOptions # Undefined
     /\ Truthy(last.pre.options.snapOptions[1].snapPx)
  THEN last.pre.options.snapOptions[1].snapPx[1] ELSE DefaultSnapPx

CallTolerance == CallSnapPx * metersPerPixel(last.e.lngLat.lat, last.pre.map.zoom)

FeatureWins ==
  /\ Resolved /\ last.pre.options.snap
  /\ CallClosest.distance # Undefined
  /\ CallClosest.distance[1] < CallTolerance

FeatureCoordinate ==
  checkPrioritiySnapping(CallClosest, last.pre.options.snapOptions,
    IF last.pre.options.snapOptions # Undefined
    THEN last.pre.options.snapOptions[1].snapVertexPriorityDistance ELSE Undefined)

\* The raw coordinate with each matched axis replaced by its guide value.
GuideCoordinate ==
  [lng |-> IF MatchedV THEN state.verticalGuide[1][1] ELSE last.e.lngLat.lng,
   lat |-> IF MatchedH THEN state.horizontalGuide[1][2] ELSE last.e.lngLat.lat]

\* C2: a call that is not bypassed and has candidates returns the feature
\* snap coordinate when a feature lies within the pixel tolerance (only with
\* feature snapping on), else the raw coordinate with each matched axis
\* replaced by its guide value, else the raw coordinate.
C2_Priority ==
  Resolved => last.ret = IF FeatureWins THEN FeatureCoordinate ELSE GuideCoordinate

\* A feature within the tolerance wins although both guides matched and the
\* guide coordinate is another one.
C2_Witness ==
  /\ Resolved /\ FeatureWins /\ MatchedV /\ MatchedH
  /\ FeatureCoordinate # GuideCoordinate
  /\ FeatureCoordinate # last.e.lngLat

\* C3: a second call with the same event, right after the first and with the
\* candidates, vertices and options untouched, returns the same coordinate.
C3_Idempotent == (Called /\ last.again) => last.ret = last.prevRet

\* A repeated call whose first call changed the guide flags and lines, and
\* which did not return the raw coordinate.
C3_Witness ==
  /\ Called /\ last.again /\ last.changed
  /\ last.ret # last.e.lngLat

\* C4 as claimed: after every call each flag is true exactly when that axis
\* matched in that call; no earlier value survives a call.
C4_Original ==
  Called =>
    /\ state.showVerticalSnapLine =
         (GuidesRan /\ Truthy(getNearbyvertices(last.pre.vertices, last.e.lngLat).verticalPx))
    /\ state.showHorizontalSnapLine =
         (GuidesRan /\ Truthy(getNearbyvertices(last.pre.vertices, last.e.lngLat).horizontalPx))

\* C4 amended: a bypassed call clears both flags; a call with candidates and
\* guides on sets each flag by its own lookup alone (true exactly when the
\* first recorded value within the tolerance is not 0); any other call
\* leaves both flags as they were.
C4_Recomputed ==
  Called =>
    IF last.e.originalEvent.altKey
    THEN ~state.showVerticalSnapLine /\ ~state.showHorizontalSnapLine
    ELSE IF GuidesRan
    THEN /\ state.showVerticalSnapLine = (NearV /\ FirstNearV # 0)
         /\ state.showHorizontalSnapLine = (NearH /\ FirstNearH # 0)
    ELSE /\ state.showVerticalSnapLine = last.pre.showVerticalSnapLine
         /\ state.showHorizontalSnapLine = last.pre.showHorizontalSnapLine

\* A call with candidates and guides off that left a set flag set, although
\* no axis is matched in a call that does not look for guides.
C4_Witness ==
  /\ Resolved /\ ~last.pre.options.guides
  /\ last.pre.showHorizontalSnapLine /\ state.showHorizontalSnapLine
  /\ ~last.pre.showVerticalSnapLine /\ ~state.showVerticalSnapLine

\* C5 as claimed: with guides on, an axis is matched exactly when some
\* recorded value lies within the tolerance of the query.
C5_MatchIffNear ==
  GuidesRan =>
    /\ state.showVerticalSnapLine = NearV
    /\ state.showHorizontalSnapLine = NearH

\* C6: a matched axis sets both endpoints of its guide line to the first
\* recorded value within the tolerance, 10 degrees to either side of the
\* query on the other axis; an axis that did not match keeps its guide line.
C6_GuideEndpoints ==
  Called =>
    /\ IF MatchedV
       THEN state.verticalGuide =
              << <<FirstNearV, last.e.lngLat.lat + GuideLength>>,
                 <<FirstNearV, last.e.lngLat.lat - GuideLength>> >>
       ELSE state.verticalGuide = last.pre.verticalGuide
    /\ IF MatchedH
       THEN state.horizontalGuide =
              << <<last.e.lngLat.lng + GuideLength, FirstNearH>>,
                 <<last.e.lngLat.lng - GuideLength, FirstNearH>> >>
       ELSE state.horizontalGuide = last.pre.horizontalGuide

\* The vertical axis matched a recorded longitude that is neither the query's
\* nor the closest one, and moved a guide line that was placed before; the
\* horizontal axis did not match and kept its placed guide line.
C6_Witness ==
  /\ MatchedV /\ ~MatchedH
  /\ last.pre.verticalGuide # << >> /\ last.pre.horizontalGuide # << >>
  /\ state.verticalGuide # last.pre.verticalGuide
  /\ FirstNearV # last.e.lngLat.lng
  /\ \E i \in 1..Len(last.pre.vertices) :
       Abs(last.pre.vertices[i][1] - last.e.lngLat.lng) < Abs(FirstNearV - last.e.lngLat.lng)

(***************************************************************************)
(* createSnapList over a store that grows                                  *)
(***************************************************************************)
MaxStore == 3

\* A guide line as a snap call leaves it.
PlacedVertical == << <<20, 10021>>, <<20, -9979>> >>

PlacedHorizontal == << <<10022, 16>>, <<-9978, 16>> >>

DefaultOptions == [snap |-> TRUE, guides |-> TRUE, snapOptions |-> Undefined]

\* A session for any current feature, its guide lines placed, the store empty.
InitCreate ==
  /\ store = << >>
  /\ \E c \in FeatureIds \cup {NewId} :
       state = [NewState(<< >>, c, DefaultOptions, 14) EXCEPT
                  !.verticalGuide = PlacedVertical,
                  !.horizontalGuide = PlacedHorizontal]
  /\ last = NoOp
  /\ probe = 0

\* The host adds a feature (or a guide) to the store.
StoreAdd(id) ==
  /\ Len(store) < MaxStore
  /\ \A i \in 1..Len(store) : store[i] # id
  /\ store' = Append(store, id)
  /\ last' = [op |-> "add"]
  /\ UNCHANGED <<state, probe>>

NextCreate ==
  \/ \E id \in FeatureIds \cup GuideIds : StoreAdd(id)
  \/ CreateSnapList

SpecCreate == InitCreate /\ [][NextCreate]_vars

\* The ids of the store that are candidates, in store order.
RECURSIVE Candidates(_, _)

Candidates(ids, i) ==
  IF i > Len(ids) THEN << >>
  ELSE IF ids[i] \in GuideIds \/ ids[i] = state.currentFeature THEN Candidates(ids, i + 1)
  ELSE <<ids[i]>> \o Candidates(ids, i + 1)

\* The coordinate pairs of a drawn feature, by its geometry type.
PairsOf(id) ==
  LET g == Feature(id).geometry
      c == g.coordinates
      pairs(ps) == SelectSeq(ps, LAMBDA p : Len(p) = 2)
      raw(line) == [i \in 1..Len(line.items) |-> line.items[i].items]
      ring(poly) == Flatten([i \in 1..Len(poly.items) |-> pairs(raw(poly.items[i]))], 1)
  IN  CASE g.type = "Point" -> pairs(<<c.items>>)
        [] g.type \in {"MultiPoint", "LineString"} -> pairs(raw(c))
        [] g.type = "Polygon" -> ring(c)
        [] g.type = "MultiPolygon" ->
             Flatten([i \in 1..Len(c.items) |-> ring(c.items[i])], 1)

\* C7: createSnapList returns, in store order, exactly the features that are
\* neither a guide nor the current feature, and exactly the coordinate pairs
\* of those features' geometries.
C7_SnapList ==
  last.op = "createSnapList" =>
    /\ state.snapList = Candidates(store, 1)
    /\ state.vertices =
         Flatten([i \in 1..Len(state.snapList) |-> PairsOf(state.snapList[i])], 1)
    /\ \A i \in 1..Len(state.snapList) :
         state.snapList[i] \notin GuideIds /\ state.snapList[i] # state.currentFeature

\* The store holds a guide with placed coordinates, the current feature and
\* two candidates, one of them with nested rings; the guide's and the current
\* feature's coordinates are not among the vertices.
C7_Witness ==
  /\ last.op = "createSnapList"
  /\ \E i \in 1..Len(store) : store[i] = IDS.VERTICAL_GUIDE
  /\ \E i \in 1..Len(store) : store[i] = state.currentFeature
  /\ state.snapList = <<"pg">>
  /\ Len(state.vertices) = 8
  /\ \A i \in 1..Len(state.vertices) : state.vertices[i] # PlacedVertical[1]

(***************************************************************************)
(* calcClosestLayer over any results, a distance of undefined included     *)
(***************************************************************************)
MaxLayers == 4

DistanceValues == {Undefined, Num(0), Num(1), Num(2)}

LayerNames == <<"pt", "mpt", "ln", "pg", "mpg", "new">>

SeqsUpTo(S, n) == UNION {[1..k -> S] : k \in 0..n}

InitClosest ==
  /\ store = << >>
  /\ state = NewState(<< >>, NewId, DefaultOptions, 14)
  /\ last = NoOp
  /\ probe \in {[distances |-> d] : d \in SeqsUpTo(DistanceValues, Min(MaxLayers, Len(LayerNames)))}

\* The results of the layers of the probe: layer i lies at <<i, i>>.
ProbeResults ==
  [i \in 1..Len(probe.distances) |-> PointResult(<<i, i>>, probe.distances[i])]

ProbeLayers == [i \in 1..Len(probe.distances) |-> LayerNames[i]]

Closest ==
  /\ last = NoOp
  /\ last' = [op |-> "calcClosestLayer",
              closestLayer |-> ClosestFrom(ProbeResults, ProbeLayers, 1, EmptyObject)]
  /\ UNCHANGED <<store, state, probe>>

NextClosest == Closest

SpecClosest == InitClosest /\ [][NextClosest]_vars

Defined(i) == probe.distances[i] # Undefined

\* Candidate i has the least defined distance and is the first to have it.
FirstLeast(i) ==
  /\ Defined(i)
  /\ \A j \in 1..Len(probe.distances) :
       Defined(j) => /\ probe.distances[j][1] >= probe.distances[i][1]
                     /\ (j < i => probe.distances[j][1] > probe.distances[i][1])

\* C8: calcClosestLayer returns the result of the first candidate of least
\* distance with that candidate as its layer, the empty object for no
\* candidates, and never a candidate of undefined distance when another has
\* a defined one.
C8_ClosestLayer ==
  last.op = "calcClosestLayer" =>
    /\ Len(probe.distances) = 0 => last.closestLayer = EmptyObject
    /\ \A i \in 1..Len(probe.distances) :
         FirstLeast(i) =>
           /\ last.closestLayer.layer = LayerNames[i]
           /\ last.closestLayer.distance = probe.distances[i]
           /\ last.closestLayer.latlng = [lng |-> i, lat |-> i]
    /\ (\E i \in 1..Len(probe.distances) : Defined(i)) =>
         last.closestLayer.distance # Undefined

\* The first candidate has no distance, two later ones tie for the least,
\* one more without a distance sits between them, and the first of the two wins.
C8_Witness ==
  /\ last.op = "calcClosestLayer"
  /\ probe.distances = <<Undefined, Num(1), Undefined, Num(1)>>
  /\ last.closestLayer.layer = LayerNames[2]

(***************************************************************************)
(* The snap resolution policy over layers, queries and options             *)
(***************************************************************************)
GridPoints == {<<10 * x, 10 * y>> : x, y \in 0..6}

PolicyPoints == GridPoints \cup Pointers \cup { <<43, 25>> }

PolicySnapOptions ==
  { Undefined,
    << [snapPx |-> Undefined, snapToMidPoints |-> TRUE,
        snapVertexPriorityDistance |-> Undefined] >>,
    << [snapPx |-> Undefined, snapToMidPoints |-> FALSE,
        snapVertexPriorityDistance |-> Undefined] >> }

PriorityDistances == {Undefined, Num(0), Num(500), Num(3000)}

InitPolicy ==
  /\ store = << >>
  /\ state = NewState(<< >>, NewId, DefaultOptions, 14)
  /\ last = NoOp
  /\ probe \in [layer : FeatureIds, P : PolicyPoints,
                snapOptions : PolicySnapOptions,
                snapVertexPriorityDistance : PriorityDistances]

\* The closest result of one layer is resolved under the options.
Resolve ==
  /\ last = NoOp
  /\ \E closestLayer \in {calcLayerDistances([lng |-> probe.P[1], lat |-> probe.P[2]],
                                             Feature(probe.layer))} :
       last' = [op |-> "resolve", closestLayer |-> closestLayer,
                ret |-> checkPrioritiySnapping(closestLayer, probe.snapOptions,
                                               probe.snapVertexPriorityDistance)]
  /\ UNCHANGED <<store, state, probe>>

NextPolicy == Resolve

SpecPolicy == InitPolicy /\ [][NextPolicy]_vars

ResolvedA == last.closestLayer.segment[1]

ResolvedB == last.closestLayer.segment[2]

ResolvedC == <<last.closestLayer.latlng.lng, last.closestLayer.latlng.lat>>

ResolvedM == midpoint(ResolvedA, ResolvedB)

MidPointsOn == probe.snapOptions # Undefined /\ probe.snapOptions[1].snapToMidPoints

MidPointWins ==
  /\ MidPointsOn
  /\ distance(ResolvedM, ResolvedC) < distance(ResolvedA, ResolvedC)
  /\ distance(ResolvedM, ResolvedC) < distance(ResolvedB, ResolvedC)

\* The coordinates V may be: M when it wins, else the nearer of A and B.
VertexChoices ==
  IF MidPointWins THEN {ResolvedM}
  ELSE {v \in {ResolvedA, ResolvedB} :
          /\ distance(v, ResolvedC) <= distance(ResolvedA, ResolvedC)
          /\ distance(v, ResolvedC) <= distance(ResolvedB, ResolvedC)}

PriorityInForce ==
  IF probe.snapVertexPriorityDistance = Undefined THEN DefaultPriorityDistance
  ELSE probe.snapVertexPriorityDistance[1]

AsPair(latlng) == <<latlng.lng, latlng.lat>>

\* C9: a result without a segment resolves to its own coordinate; with a
\* segment A, B and nearest point C it resolves to V (the nearer of A and B,
\* or the midpoint M when midpoints are enabled and M is strictly nearer
\* than both) when distance(V, C) is strictly less than the priority
\* distance (1.25 km when not configured) and to C otherwise; a priority of
\* 0 gives C, and a query on a vertex gives that vertex.
C9_ResolutionPolicy ==
  last.op = "resolve" =>
    /\ ~last.closestLayer.hasSegment => last.ret = last.closestLayer.latlng
    /\ last.closestLayer.hasSegment =>
         /\ \E V \in VertexChoices :
              AsPair(last.ret) = IF distance(V, ResolvedC) < PriorityInForce
                                 THEN V ELSE ResolvedC
         /\ probe.snapVertexPriorityDistance = Num(0) => AsPair(last.ret) = ResolvedC
         /\ probe.P \in {ResolvedA, ResolvedB} => AsPair(last.ret) = probe.P

\* No priority distance is configured, midpoints are enabled, and the query
\* resolves to the midpoint of the segment, which is not the nearest point.
C9_Witness ==
  /\ last.op = "resolve"
  /\ last.closestLayer.hasSegment
  /\ probe.snapVertexPriorityDistance = Undefined
  /\ MidPointsOn
  /\ AsPair(last.ret) = ResolvedM
  /\ ResolvedM \notin {ResolvedA, ResolvedB, ResolvedC}

(***************************************************************************)
(* The segment of a result, for every line and index                       *)
(***************************************************************************)
MaxIndex == 4

LineLayers == {"ln", "pg", "mpg"}

\* The lines of a line-like layer: the line itself, or the rings.
LinesOf(layer) ==
  IF layer.geometry.type = "LineString"
  THEN <<LineCoords(layer.geometry.coordinates)>>
  ELSE polygonToLine(layer.geometry)

InitKernel ==
  /\ store = << >>
  /\ state = NewState(<< >>, NewId, DefaultOptions, 14)
  /\ last = NoOp
  /\ probe \in [layer : LineLayers, P : GridPoints, index : 0..MaxIndex]

\* calcLayerDistances for the layer and the query, with the line that won
\* and the index reported on it.
Calc ==
  /\ last = NoOp
  /\ \E closestFeature \in {getFeatureWithNearestPoint(LinesOf(Feature(probe.layer)),
                                                       probe.P)} :
       last' = [op |-> "calc",
                results |-> calcLayerDistances([lng |-> probe.P[1], lat |-> probe.P[2]],
                                               Feature(probe.layer)),
                line |-> closestFeature.feature,
                index |-> closestFeature.point.index]
  /\ UNCHANGED <<store, state, probe>>

\* Lines 171-186 for the first line of the layer and any index.
Segment ==
  /\ last = NoOp
  /\ \E line \in {LinesOf(Feature(probe.layer))[1]} :
       last' = [op |-> "segment",
                results |-> [hasSegment |-> TRUE,
                             segment |-> SegmentAt(line, probe.index)],
                line |-> line, index |-> probe.index]
  /\ UNCHANGED <<store, state, probe>>

NextKernel == Calc \/ Segment

SpecKernel == InitKernel /\ [][NextKernel]_vars

\* The index of the first vertex of the segment for a reported index.
ClampedIndex == IF last.index + 1 >= Len(last.line) THEN Len(last.line) - 2 ELSE last.index

\* C10: the segment of a line-like result has exactly 2 coordinates, which
\* are the vertices [i, i+1] of the winning line for the reported index i,
\* or the last pair [n-2, n-1] when i+1 is out of bounds.
C10_SegmentIsPair ==
  last.op \in {"calc", "segment"} =>
    /\ last.results.hasSegment
    /\ Len(last.results.segment) = 2
    /\ \E k \in 0..(Len(last.line) - 2) :
         /\ k = ClampedIndex
         /\ last.results.segment = <<last.line[k + 1], last.line[k + 2]>>
    /\ \E i \in 1..Len(LinesOf(Feature(probe.layer))) :
         last.line = LinesOf(Feature(probe.layer))[i]

\* The nearest point is the last vertex of the line: the reported index is
\* n-1 and the segment is the last pair.
C10_Witness ==
  /\ last.op = "calc"
  /\ last.index = Len(last.line) - 1
  /\ last.results.segment =
       <<last.line[Len(last.line) - 1], last.line[Len(last.line)]>>

====
